---------------------------- MODULE Spec2Model ----------------------------
(***************************************************************************)
(* A model of the MemFS file system provider and its two search providers *)
(* (src/extension/src/extension.ts).                                      *)
(*                                                                         *)
(* The backing store (@zenfs/core's promises API) is a tree of nodes, a   *)
(* function from the paths that exist to their node.  A path is a         *)
(* sequence of entry names, <<>> being the root "/".  The facade          *)
(* operations of class MemFS are operators that compute, call by call,    *)
(* what the method does to the store, the backing-store calls it starts   *)
(* and the error it raises.  The two search providers are state machines  *)
(* with one step per suspension point (await).                            *)
(***************************************************************************)
EXTENDS Integers, Sequences, FiniteSets, TLC

VARIABLES
    store,   \* the backing store: [existing paths -> node]
    prev,    \* the store as it was when the last facade call began
    last,    \* the last facade call: its arguments and its outcome
    inv,     \* the search invocation in progress (its closure variables)
    peer     \* a second search invocation, suspended at an await

vars == <<store, prev, last, inv, peer>>

---------------------------------------------------------------------------
(* Bounds of the model. *)

\* Longest path the store may hold; a call that needs a longer one has not
\* returned within the model.
MaxDepth == 4
\* Most entries (below the root) of a store a facade call starts from.
MaxEntries == 3
\* Longest path given to a facade call.
MaxArgDepth == 2

\* Most entries of a store a search runs over.
MaxSearchEntries == 3
\* Largest options.maxResults given to a search (0: none given).
MaxCap == 2
\* Most progress reports the model follows one text search for.
MaxEvents == 5
\* Most store calls of one search that fail for a cause outside the store.
MaxFaults == 1
\* Most entries of a store two searches run over at a time.
MaxPairEntries == 1

\* Entry names and file contents of the stores the facade is called on.
FacadeNames == {"a", "b"}
FileData == {<<"x">>, <<"y", "z">>}

---------------------------------------------------------------------------
(* Paths. *)

Root == <<>>

Parent(p) == IF p = Root THEN Root ELSE SubSeq(p, 1, Len(p) - 1)

Basename(p) == p[Len(p)]

\* p is q or an ancestor of q.
IsPrefix(p, q) == Len(p) <= Len(q) /\ SubSeq(q, 1, Len(p)) = p

IsProperPrefix(p, q) == Len(p) < Len(q) /\ SubSeq(q, 1, Len(p)) = p

Join(p, name) == Append(p, name)

\* The path q, which lies under old, moved under new.
Rebase(q, old, new) == new \o SubSeq(q, Len(old) + 1, Len(q))

RECURSIVE PathsOver(_, _)
PathsOver(names, depth) ==
    IF depth = 0 THEN {Root}
    ELSE LET shorter == PathsOver(names, depth - 1)
         IN  shorter \cup {Append(p, n) : p \in {q \in shorter : Len(q) = depth - 1},
                                          n \in names}

---------------------------------------------------------------------------
(* The backing store. *)

DirNode == [kind |-> "dir", data |-> <<>>]
FileNode(d) == [kind |-> "file", data |-> d]

Subtree(st, p) == {q \in DOMAIN st : IsPrefix(p, q)}

Children(st, p) == {q \in DOMAIN st : Len(q) = Len(p) + 1 /\ IsPrefix(p, q)}

ChildNames(st, p) == {Basename(q) : q \in Children(st, p)}

\* Every entry but the root lies in a directory; the root is a directory.
WellFormed(st) ==
    /\ Root \in DOMAIN st
    /\ st[Root] = DirNode
    /\ \A p \in DOMAIN st : Parent(p) \in DOMAIN st /\ st[Parent(p)].kind = "dir"

\* The code a call fails with on a path that does not exist.
MissingCode(st, p) ==
    IF \E k \in 0..(Len(p) - 1) :
           LET a == SubSeq(p, 1, k) IN a \in DOMAIN st /\ st[a].kind = "file"
    THEN "ENOTDIR" ELSE "ENOENT"

fs_exists(st, p) == p \in DOMAIN st

fs_stat(st, p) ==
    IF p \in DOMAIN st THEN [err |-> "", kind |-> st[p].kind]
    ELSE [err |-> MissingCode(st, p), kind |-> ""]

\* The names of p's entries, in the store's listing order: ord lists every
\* name once.
fs_readdir(st, p, ord) ==
    IF p \notin DOMAIN st THEN [err |-> MissingCode(st, p), entries |-> <<>>]
    ELSE IF st[p].kind # "dir" THEN [err |-> "ENOTDIR", entries |-> <<>>]
    ELSE [err |-> "",
          entries |-> SelectSeq(ord, LAMBDA n : n \in ChildNames(st, p))]

fs_readFile(st, p) ==
    IF p \notin DOMAIN st THEN [err |-> MissingCode(st, p), data |-> <<>>]
    ELSE IF st[p].kind = "dir" THEN [err |-> "EISDIR", data |-> <<>>]
    ELSE [err |-> "", data |-> st[p].data]

\* flag "w" creates or truncates, flag "wx" creates and fails on an
\* existing path.
fs_writeFile(st, p, data, flag) ==
    IF p \in DOMAIN st
    THEN IF flag = "wx" THEN [err |-> "EEXIST", store |-> st]
         ELSE IF st[p].kind = "dir" THEN [err |-> "EISDIR", store |-> st]
         ELSE [err |-> "", store |-> [st EXCEPT ![p] = FileNode(data)]]
    ELSE IF Parent(p) \notin DOMAIN st \/ st[Parent(p)].kind # "dir"
         THEN [err |-> MissingCode(st, p), store |-> st]
         ELSE [err |-> "", store |-> (p :> FileNode(data)) @@ st]

\* mkdir with recursive: true: creates the missing directories of p's
\* path; succeeds on an existing directory.
fs_mkdir(st, p) ==
    IF \E k \in 0..(Len(p) - 1) :
           LET a == SubSeq(p, 1, k) IN a \in DOMAIN st /\ st[a].kind = "file"
    THEN [err |-> "ENOTDIR", store |-> st]
    ELSE IF p \in DOMAIN st /\ st[p].kind = "file"
    THEN [err |-> "EEXIST", store |-> st]
    ELSE LET made == {SubSeq(p, 1, k) : k \in 0..Len(p)} \ DOMAIN st
         IN  [err |-> "", store |-> [q \in made |-> DirNode] @@ st]

\* rm: force forgives a missing path; a directory with entries goes only
\* with recursive; the root itself cannot be removed.
fs_rm(st, p, force, recursive) ==
    IF p \notin DOMAIN st
    THEN IF force /\ MissingCode(st, p) = "ENOENT"
         THEN [err |-> "", store |-> st]
         ELSE [err |-> MissingCode(st, p), store |-> st]
    ELSE IF st[p].kind = "dir" /\ ~recursive /\ Children(st, p) # {}
    THEN [err |-> "ENOTEMPTY", store |-> st]
    ELSE IF p = Root
    THEN [err |-> "EBUSY", store |-> [q \in {Root} |-> st[q]]]
    ELSE [err |-> "", store |-> [q \in DOMAIN st \ Subtree(st, p) |-> st[q]]]

\* rename moves the tree at old to new, replacing a file or an empty
\* directory of the same kind there.
fs_rename(st, old, new) ==
    IF old \notin DOMAIN st THEN [err |-> MissingCode(st, old), store |-> st]
    ELSE IF Parent(new) \notin DOMAIN st \/ st[Parent(new)].kind # "dir"
    THEN [err |-> MissingCode(st, new), store |-> st]
    ELSE IF new = old THEN [err |-> "", store |-> st]
    ELSE IF IsProperPrefix(old, new) THEN [err |-> "EINVAL", store |-> st]
    ELSE IF new \in DOMAIN st /\ st[old].kind = "file" /\ st[new].kind = "dir"
    THEN [err |-> "EISDIR", store |-> st]
    ELSE IF new \in DOMAIN st /\ st[old].kind = "dir" /\ st[new].kind = "file"
    THEN [err |-> "ENOTDIR", store |-> st]
    ELSE IF new \in DOMAIN st /\ Children(st, new) # {}
    THEN [err |-> "ENOTEMPTY", store |-> st]
    ELSE LET moved == Subtree(st, old)
             kept  == DOMAIN st \ (moved \cup Subtree(st, new))
         IN  [err |-> "",
              store |-> [q \in kept \cup {Rebase(m, old, new) : m \in moved} |->
                            IF q \in kept THEN st[q]
                            ELSE st[Rebase(q, new, old)]]]

---------------------------------------------------------------------------
(* The facade: class MemFS. *)

scheme == "memfs"

Uri(sch, p) == [scheme |-> sch, path |-> p]

\* asFsPath without the scheme check.
asFsPath_anyScheme(uri) == [err |-> "", path |-> uri.path]

\* uri.path || "/": the empty path and "/" are both the root, <<>>.
asFsPath(uri) ==
    IF uri.scheme # scheme
    THEN [err |-> "Unavailable", path |-> Root]
    ELSE [err |-> "", path |-> uri.path]

\* The class of the error raised for an error carrying this code.  An
\* error made by vscode.FileSystemError.FileNotFound / FileExists carries
\* the code "FileNotFound" / "FileExists", which no case names.
toFileSystemError(code) ==
    CASE code = "ENOENT"  -> "NotFound"
      [] code = "EEXIST"  -> "AlreadyExists"
      [] code = "EISDIR"  -> "IsADirectory"
      [] code = "ENOTDIR" -> "NotFound"
      [] OTHER            -> "Unavailable"

toFileType(kind) ==
    CASE kind = "file" -> "File"
      [] kind = "dir"  -> "Directory"
      [] OTHER         -> "Unknown"

\* A backing-store call as the facade starts it.
StoreCall(fn, p, to, opt) == [fn |-> fn, path |-> p, to |-> to, opt |-> opt]

\* What a facade call leaves: the store, the calls it started, the class of
\* the error it raised ("OK": none), the message of an Unavailable error,
\* and what it returned.
Outcome(st, calls, result, msg) ==
    [store |-> st, calls |-> calls, result |-> result, msg |-> msg,
     data |-> <<>>, kind |-> "", listing |-> <<>>]

\* A catch block that throws nothing.
Caught_swallowed(st, calls, code) == Outcome(st, calls, "OK", "")

\* throw this.toFileSystemError(error, uri) for an error with this code.
Caught(st, calls, code) ==
    Outcome(st, calls, toFileSystemError(code),
            IF toFileSystemError(code) = "Unavailable" THEN code ELSE "")

\* asFsPath threw: no store call was made.
BadScheme(st, uri) == Outcome(st, <<>>, "Unavailable", uri.scheme)

stat(st, uri) ==
    IF asFsPath(uri).err # "" THEN BadScheme(st, uri)
    ELSE LET fsPath == asFsPath(uri).path
             stats  == fs_stat(st, fsPath)
             calls  == <<StoreCall("stat", fsPath, Root, "")>>
         IN  IF stats.err # "" THEN Caught(st, calls, stats.err)
             ELSE [Outcome(st, calls, "OK", "") EXCEPT
                       !.kind = toFileType(stats.kind)]

\* The stats of the entries, one call each, up to the first that fails.
RECURSIVE statEach(_, _, _, _)
statEach(st, dir, names, acc) ==
    IF names = <<>> \/ acc.err # "" THEN acc
    ELSE LET child == Join(dir, Head(names))
             s     == fs_stat(st, child)
         IN  statEach(st, dir, Tail(names),
                 [err |-> s.err,
                  calls |-> Append(acc.calls, StoreCall("stat", child, Root, "")),
                  listing |-> IF s.err # "" THEN acc.listing
                              ELSE Append(acc.listing,
                                          <<Head(names), toFileType(s.kind)>>)])

readDirectory(st, uri, ord) ==
    IF asFsPath(uri).err # "" THEN BadScheme(st, uri)
    ELSE LET fsPath == asFsPath(uri).path
             ls     == fs_readdir(st, fsPath, ord)
             calls  == <<StoreCall("readdir", fsPath, Root, "")>>
             each   == statEach(st, fsPath, ls.entries,
                                [err |-> "", calls |-> calls, listing |-> <<>>])
         IN  IF ls.err # "" THEN Caught(st, calls, ls.err)
             ELSE IF each.err # "" THEN Caught(st, each.calls, each.err)
             ELSE [Outcome(st, each.calls, "OK", "") EXCEPT
                       !.listing = each.listing]

readFile(st, uri) ==
    IF asFsPath(uri).err # "" THEN BadScheme(st, uri)
    ELSE LET fsPath == asFsPath(uri).path
             r      == fs_readFile(st, fsPath)
             calls  == <<StoreCall("readFile", fsPath, Root, "")>>
         IN  IF r.err # "" THEN Caught(st, calls, r.err)
             ELSE [Outcome(st, calls, "OK", "") EXCEPT !.data = r.data]

\* writeFile without the check of create on a missing target.
writeFile_createIgnored(st, uri, content, create, overwrite) ==
    IF asFsPath(uri).err # "" THEN BadScheme(st, uri)
    ELSE LET fsPath == asFsPath(uri).path
             probe  == <<StoreCall("exists", fsPath, Root, "")>>
             flag   == IF overwrite THEN "w" ELSE "wx"
             w      == fs_writeFile(st, fsPath, content, flag)
             calls  == Append(probe, StoreCall("writeFile", fsPath, Root, flag))
         IN  IF w.err # "" THEN Caught(st, calls, w.err)
             ELSE Outcome(w.store, calls, "OK", "")

\* writeFile that opens with flag "w" whatever overwrite is.
writeFile_alwaysTruncates(st, uri, content, create, overwrite) ==
    IF asFsPath(uri).err # "" THEN BadScheme(st, uri)
    ELSE LET fsPath == asFsPath(uri).path
             probe  == <<StoreCall("exists", fsPath, Root, "")>>
             w      == fs_writeFile(st, fsPath, content, "w")
             calls  == Append(probe, StoreCall("writeFile", fsPath, Root, "w"))
         IN  IF ~fs_exists(st, fsPath) /\ ~create
             THEN Outcome(st, probe, "NotFound", "")
             ELSE IF w.err # "" THEN Caught(st, calls, w.err)
             ELSE Outcome(w.store, calls, "OK", "")

\* writeFile that hands the store no bytes.
writeFile_noContent(st, uri, content, create, overwrite) ==
    IF asFsPath(uri).err # "" THEN BadScheme(st, uri)
    ELSE LET fsPath == asFsPath(uri).path
             probe  == <<StoreCall("exists", fsPath, Root, "")>>
             flag   == IF overwrite THEN "w" ELSE "wx"
             w      == fs_writeFile(st, fsPath, <<>>, flag)
             calls  == Append(probe, StoreCall("writeFile", fsPath, Root, flag))
         IN  IF ~fs_exists(st, fsPath) /\ ~create
             THEN Outcome(st, probe, "NotFound", "")
             ELSE IF w.err # "" THEN Caught(st, calls, w.err)
             ELSE Outcome(w.store, calls, "OK", "")

writeFile(st, uri, content, create, overwrite) ==
    IF asFsPath(uri).err # "" THEN BadScheme(st, uri)
    ELSE LET fsPath == asFsPath(uri).path
             probe  == <<StoreCall("exists", fsPath, Root, "")>>
             flag   == IF overwrite THEN "w" ELSE "wx"
             w      == fs_writeFile(st, fsPath, content, flag)
             calls  == Append(probe, StoreCall("writeFile", fsPath, Root, flag))
         IN  IF ~fs_exists(st, fsPath) /\ ~create
             THEN Outcome(st, probe, "NotFound", "")
             ELSE IF w.err # "" THEN Caught(st, calls, w.err)
             ELSE Outcome(w.store, calls, "OK", "")

\* delete that always removes recursively.
delete_alwaysRecursive(st, uri, recursive) ==
    IF asFsPath(uri).err # "" THEN BadScheme(st, uri)
    ELSE LET fsPath == asFsPath(uri).path
             r      == fs_rm(st, fsPath, TRUE, TRUE)
             calls  == <<StoreCall("rm", fsPath, Root, "recursive")>>
         IN  IF r.err # "" THEN Caught(r.store, calls, r.err)
             ELSE Outcome(r.store, calls, "OK", "")

delete(st, uri, recursive) ==
    IF asFsPath(uri).err # "" THEN BadScheme(st, uri)
    ELSE LET fsPath == asFsPath(uri).path
             r      == fs_rm(st, fsPath, TRUE, recursive)
             calls  == <<StoreCall("rm", fsPath, Root,
                                   IF recursive THEN "recursive" ELSE "")>>
         IN  IF r.err # "" THEN Caught(r.store, calls, r.err)
             ELSE Outcome(r.store, calls, "OK", "")

\* rename that never removes the destination first.
rename_noRemoval(st, oldUri, newUri, overwrite) ==
    IF asFsPath(oldUri).err # "" THEN BadScheme(st, oldUri)
    ELSE IF asFsPath(newUri).err # "" THEN BadScheme(st, newUri)
    ELSE LET oldPath == asFsPath(oldUri).path
             newPath == asFsPath(newUri).path
             mv      == fs_rename(st, oldPath, newPath)
             calls   == <<StoreCall("rename", oldPath, newPath, "")>>
         IN  IF mv.err # "" THEN Caught(st, calls, mv.err)
             ELSE Outcome(mv.store, calls, "OK", "")

rename(st, oldUri, newUri, overwrite) ==
    IF asFsPath(oldUri).err # "" THEN BadScheme(st, oldUri)
    ELSE IF asFsPath(newUri).err # "" THEN BadScheme(st, newUri)
    ELSE LET oldPath == asFsPath(oldUri).path
             newPath == asFsPath(newUri).path
             probe   == IF overwrite
                        THEN <<StoreCall("exists", newPath, Root, "")>>
                        ELSE <<>>
             remove  == overwrite /\ fs_exists(st, newPath)
             rm      == fs_rm(st, newPath, TRUE, TRUE)
             calls1  == IF remove
                        THEN Append(probe, StoreCall("rm", newPath, Root, "recursive"))
                        ELSE probe
             st1     == IF remove THEN rm.store ELSE st
             mv      == fs_rename(st1, oldPath, newPath)
             calls2  == Append(calls1, StoreCall("rename", oldPath, newPath, ""))
         IN  IF remove /\ rm.err # "" THEN Caught(st1, calls1, rm.err)
             ELSE IF mv.err # "" THEN Caught(st1, calls2, mv.err)
             ELSE Outcome(mv.store, calls2, "OK", "")

createDirectory(st, uri) ==
    IF asFsPath(uri).err # "" THEN BadScheme(st, uri)
    ELSE LET fsPath == asFsPath(uri).path
             r      == fs_mkdir(st, fsPath)
             calls  == <<StoreCall("mkdir", fsPath, Root, "recursive")>>
         IN  IF r.err # "" THEN Caught(st, calls, r.err)
             ELSE Outcome(r.store, calls, "OK", "")

\* The running state of copy: the store, the calls started so far and the
\* code of the error thrown ("": none).
Started(m, call) == [m EXCEPT !.calls = Append(@, call)]

\* A call that changes the store was started and returned r.
Did(m, call, r) ==
    [store |-> r.store, calls |-> Append(m.calls, call), err |-> r.err]

\* A call that reads the store was started and returned r.
Asked(m, call, r) == [Started(m, call) EXCEPT !.err = r.err]

ensureParentDirectory(m, fsPath) ==
    LET parent == Parent(fsPath)
        probed == Started(m, StoreCall("exists", parent, Root, ""))
    IN  IF parent = fsPath THEN m
        ELSE IF fs_exists(m.store, parent) THEN probed
        ELSE Did(probed, StoreCall("mkdir", parent, Root, "recursive"),
                 fs_mkdir(m.store, parent))

\* const data = await fs.readFile(from); await fs.writeFile(to, data)
copyFile(m, from, to) ==
    LET r    == fs_readFile(m.store, from)
        read == Asked(m, StoreCall("readFile", from, Root, ""), r)
    IN  IF read.err # "" THEN read
        ELSE IF Len(to) > MaxDepth THEN [read EXCEPT !.err = "Unbounded"]
        ELSE Did(read, StoreCall("writeFile", to, Root, "w"),
                 fs_writeFile(m.store, to, r.data, "w"))

RECURSIVE copyDirectory(_, _, _, _)
RECURSIVE copyEntries(_, _, _, _, _)

\* The for loop of copyDirectory over the entries listed.
copyEntries(m, source, destination, entries, ord) ==
    IF m.err # "" \/ entries = <<>> THEN m
    ELSE LET childSource      == Join(source, Head(entries))
             childDestination == Join(destination, Head(entries))
             s       == fs_stat(m.store, childSource)
             statted == Asked(m, StoreCall("stat", childSource, Root, ""), s)
             copied  == IF statted.err # "" THEN statted
                        ELSE IF s.kind = "dir"
                        THEN copyDirectory(statted, childSource,
                                           childDestination, ord)
                        ELSE copyFile(statted, childSource, childDestination)
         IN  copyEntries(copied, source, destination, Tail(entries), ord)

\* A destination longer than MaxDepth ends the model's run of the call with
\* "Unbounded": the call has not returned.
copyDirectory(m, sourcePath, destPath, ord) ==
    IF Len(destPath) > MaxDepth THEN [m EXCEPT !.err = "Unbounded"]
    ELSE LET probed == Started(m, StoreCall("exists", destPath, Root, ""))
             made   == IF fs_exists(m.store, destPath) THEN probed
                       ELSE Did(probed,
                                StoreCall("mkdir", destPath, Root, "recursive"),
                                fs_mkdir(m.store, destPath))
             ls     == fs_readdir(made.store, sourcePath, ord)
             listed == Asked(made, StoreCall("readdir", sourcePath, Root, ""), ls)
         IN  IF made.err # "" THEN made
             ELSE copyEntries(listed, sourcePath, destPath, ls.entries, ord)

copy(st, source, destination, overwrite, ord) ==
    IF asFsPath(source).err # "" THEN BadScheme(st, source)
    ELSE IF asFsPath(destination).err # "" THEN BadScheme(st, destination)
    ELSE LET sourcePath == asFsPath(source).path
             destPath   == asFsPath(destination).path
             probe1 == <<StoreCall("exists", sourcePath, Root, "")>>
             probe2 == Append(probe1, StoreCall("exists", destPath, Root, ""))
             m0     == [store |-> st, calls |-> probe2, err |-> ""]
             m1     == ensureParentDirectory(m0, destPath)
             s      == fs_stat(m1.store, sourcePath)
             m2     == Asked(m1, StoreCall("stat", sourcePath, Root, ""), s)
             m3     == IF m1.err # "" THEN m1
                       ELSE IF m2.err # "" THEN m2
                       ELSE IF s.kind = "dir"
                       THEN copyDirectory(m2, sourcePath, destPath, ord)
                       ELSE copyFile(m2, sourcePath, destPath)
         IN  IF ~fs_exists(st, sourcePath)
             THEN Caught(st, probe1, "FileNotFound")
             ELSE IF fs_exists(st, destPath) /\ ~overwrite
             THEN Caught(st, probe2, "FileExists")
             ELSE IF m3.err = "" THEN Outcome(m3.store, m3.calls, "OK", "")
             ELSE IF m3.err = "Unbounded"
             THEN Outcome(m3.store, m3.calls, "Unbounded", "")
             ELSE Caught(m3.store, m3.calls, m3.err)

---------------------------------------------------------------------------
(* The stores a run starts from: every tree of at most n entries. *)

RECURSIVE Shapes(_, _)
Shapes(names, n) ==
    IF n = 0 THEN {{Root}}
    ELSE LET smaller == Shapes(names, n - 1)
         IN  smaller \cup
             UNION {{S \cup {Join(q, nm)} : q \in S, nm \in names} : S \in smaller}

TreeStores(names, data, n) ==
    UNION {{st \in [S -> {DirNode} \cup {FileNode(d) : d \in data}] :
                WellFormed(st)} : S \in Shapes(names, n)}

Entries(st) == Cardinality(DOMAIN st) - 1

\* The orders a directory listing may come in: the permutations of names.
Orders(names) ==
    {o \in [1..Cardinality(names) -> names] :
        \A i, j \in DOMAIN o : i # j => o[i] # o[j]}

---------------------------------------------------------------------------
(* The host's calls of the facade. *)

ArgPaths == PathsOver(FacadeNames, MaxArgDepth)

\* The identifiers given: every path under the provider's scheme, and one
\* identifier of another scheme.
Uris == {Uri(scheme, p) : p \in ArgPaths} \cup {Uri("file", <<"a">>)}

NoUri == Uri("", Root)

NoCall ==
    [op |-> "", a |-> NoUri, b |-> NoUri, content |-> <<>>, create |-> FALSE,
     overwrite |-> FALSE, recursive |-> FALSE, result |-> "", msg |-> "",
     calls |-> <<>>, data |-> <<>>, kind |-> "", listing |-> <<>>]

NoInv == [engine |-> ""]

\* No facade call has been made since the host resumed, and no search runs.
Idle == last.op = "" /\ inv = NoInv

\* The host's call returns (or raises) with this outcome.
Returns(call, out) ==
    /\ store' = out.store
    /\ prev' = store
    /\ last' = [call EXCEPT !.result = out.result, !.msg = out.msg,
                            !.calls = out.calls, !.data = out.data,
                            !.kind = out.kind, !.listing = out.listing]
    /\ UNCHANGED <<inv, peer>>

CallStat ==
    /\ Idle
    /\ \E u \in Uris :
        Returns([NoCall EXCEPT !.op = "stat", !.a = u], stat(store, u))

CallReadDirectory ==
    /\ Idle
    /\ \E u \in Uris, ord \in Orders(FacadeNames) :
        Returns([NoCall EXCEPT !.op = "readDirectory", !.a = u],
                readDirectory(store, u, ord))

CallReadFile ==
    /\ Idle
    /\ \E u \in Uris :
        Returns([NoCall EXCEPT !.op = "readFile", !.a = u], readFile(store, u))

CallWriteFile ==
    /\ Idle
    /\ \E u \in Uris, content \in FileData, create \in BOOLEAN, overwrite \in BOOLEAN :
        Returns([NoCall EXCEPT !.op = "writeFile", !.a = u, !.content = content,
                               !.create = create, !.overwrite = overwrite],
                writeFile(store, u, content, create, overwrite))

CallDelete ==
    /\ Idle
    /\ \E u \in Uris, recursive \in BOOLEAN :
        Returns([NoCall EXCEPT !.op = "delete", !.a = u, !.recursive = recursive],
                delete(store, u, recursive))

CallRename ==
    /\ Idle
    /\ \E u \in Uris, v \in Uris, overwrite \in BOOLEAN :
        Returns([NoCall EXCEPT !.op = "rename", !.a = u, !.b = v,
                               !.overwrite = overwrite],
                rename(store, u, v, overwrite))

\* A copy that was cut by MaxDepth is kept only when the destination lies
\* inside the source, where the recursion has no end at any depth.
CallCopy ==
    /\ Idle
    /\ \E u \in Uris, v \in Uris, overwrite \in BOOLEAN, ord \in Orders(FacadeNames) :
        LET out == copy(store, u, v, overwrite, ord)
        IN  /\ out.result = "Unbounded" => IsProperPrefix(u.path, v.path)
            /\ Returns([NoCall EXCEPT !.op = "copy", !.a = u, !.b = v,
                                      !.overwrite = overwrite], out)

CallCreateDirectory ==
    /\ Idle
    /\ \E u \in Uris :
        Returns([NoCall EXCEPT !.op = "createDirectory", !.a = u],
                createDirectory(store, u))

\* The host has the outcome; it may call again (from a store within the
\* bounds).
Resume ==
    /\ last.op # ""
    /\ last.result # "Unbounded"
    /\ Entries(store) <= MaxEntries
    /\ last' = NoCall
    /\ prev' = store
    /\ UNCHANGED <<store, inv, peer>>

Init ==
    /\ store \in TreeStores(FacadeNames, FileData, MaxEntries)
    /\ prev = store
    /\ last = NoCall
    /\ inv = NoInv
    /\ peer = NoInv

Next ==
    \/ CallStat
    \/ CallReadDirectory
    \/ CallReadFile
    \/ CallWriteFile
    \/ CallDelete
    \/ CallRename
    \/ CallCopy
    \/ CallCreateDirectory
    \/ Resume

Spec == Init /\ [][Next]_vars

---------------------------------------------------------------------------
(* Text: strings are sequences of characters, file bytes decode one to one *)
(* but for a byte that is no UTF-8, which decodes to U+FFFD.               *)

LF == "\n"
CR == "\r"

\* The characters of the entry names of the stores searched.
Spell(name) ==
    CASE name = "a.ts" -> <<"a", ".", "t", "s">>
      [] name = "A.TS" -> <<"A", ".", "T", "S">>
      [] name = "b.js" -> <<"b", ".", "j", "s">>
      [] name = "a#b"  -> <<"a", "#", "b">>
      [] OTHER         -> <<name>>

\* String.prototype.toLowerCase on one character: U+0130 (capital I with
\* dot above) becomes the two characters i, U+0307.
LowerChar(c) ==
    CASE c = "A" -> <<"a">>
      [] c = "B" -> <<"b">>
      [] c = "T" -> <<"t">>
      [] c = "S" -> <<"s">>
      [] c = "U0130" -> <<"i", "U0307">>
      [] OTHER   -> <<c>>

RECURSIVE toLowerCase(_)
toLowerCase(str) ==
    IF str = <<>> THEN <<>>
    ELSE LowerChar(Head(str)) \o toLowerCase(Tail(str))

\* Canonicalize of a regular expression that ignores case: one character
\* for one character, a character whose other case is longer being kept.
Canonicalize(c, ignoreCase) ==
    IF ignoreCase /\ Len(LowerChar(c)) = 1 THEN LowerChar(c)[1] ELSE c

\* needle occurs in hay at the zero-based index i.
OccursAt(hay, needle, i) ==
    /\ i + Len(needle) <= Len(hay)
    /\ \A k \in 1..Len(needle) : hay[i + k] = needle[k]

\* String.prototype.indexOf(needle, from): the least index >= from where
\* needle occurs, -1 when there is none; the empty needle occurs at every
\* index up to the length, and from is clamped to the length.
indexOf(hay, needle, from) ==
    LET start == IF from > Len(hay) THEN Len(hay) ELSE from
        found == {i \in start..Len(hay) : OccursAt(hay, needle, i)}
    IN  IF found = {} THEN -1
        ELSE CHOOSE i \in found : \A j \in found : i <= j

includes(hay, needle) == indexOf(hay, needle, 0) # -1

\* TextDecoder.decode (not fatal): an invalid byte becomes U+FFFD.
decode(bytes) ==
    [i \in DOMAIN bytes |-> IF bytes[i] = "xFF" THEN "uFFFD" ELSE bytes[i]]

\* text.split(/\r?\n/)
RECURSIVE splitFrom(_, _, _)
splitFrom(text, i, line) ==
    IF i > Len(text) THEN <<line>>
    ELSE IF text[i] = LF THEN <<line>> \o splitFrom(text, i + 1, <<>>)
    ELSE IF text[i] = CR /\ i < Len(text) /\ text[i + 1] = LF
    THEN <<line>> \o splitFrom(text, i + 2, <<>>)
    ELSE splitFrom(text, i + 1, Append(line, text[i]))

split(text) == splitFrom(text, 1, <<>>)

\* new RegExp(pattern, flags) for the patterns of the model: a character
\* followed by "*" is zero or more of it, any other pattern is its text.
RegExp(pattern, ignoreCase) ==
    IF Len(pattern) = 2 /\ pattern[2] = "*"
    THEN [kind |-> "star", text |-> <<pattern[1]>>, ignoreCase |-> ignoreCase]
    ELSE [kind |-> "text", text |-> pattern, ignoreCase |-> ignoreCase]

\* The length of the run of c in line from the zero-based index i.
RECURSIVE runLength(_, _, _)
runLength(line, c, i) ==
    IF i < Len(line) /\ line[i + 1] = c THEN 1 + runLength(line, c, i + 1) ELSE 0

\* The characters of str, canonicalized.
Canonical(str, ignoreCase) ==
    [i \in DOMAIN str |-> Canonicalize(str[i], ignoreCase)]

\* RegExp.prototype.exec of a global expression from lastIndex: the match
\* (index -1: null) and the lastIndex it leaves, the end of the match.
exec(re, line, lastIndex) ==
    LET subject == Canonical(line, re.ignoreCase)
        text    == Canonical(re.text, re.ignoreCase)
        at      == IF re.kind = "star" THEN lastIndex
                   ELSE indexOf(subject, text, lastIndex)
        length  == IF re.kind = "star" THEN runLength(subject, text[1], lastIndex)
                   ELSE Len(text)
    IN  IF lastIndex > Len(line) \/ at = -1
        THEN [index |-> -1, length |-> 0, lastIndex |-> 0]
        ELSE [index |-> at, length |-> length, lastIndex |-> at + length]

\* path.join(folderPath, entry) as text: "/" and the name, entry by entry.
RECURSIVE pathText(_)
pathText(p) ==
    IF p = Root THEN <<>>
    ELSE pathText(Parent(p)) \o <<"/">> \o Spell(Basename(p))

\* The first index of text that holds one of the characters, Len + 1 when
\* none does.
firstOf(text, chars) ==
    LET at == {i \in DOMAIN text : text[i] \in chars}
    IN  IF at = {} THEN Len(text) + 1
        ELSE CHOOSE i \in at : \A j \in at : i <= j

\* vscode.Uri.parse(`${scheme}:${entryPath}`): the scheme ends at the colon,
\* the path at the first "?" or "#", the query at the first "#", and what
\* follows the "#" is the fragment.
parse(sch, entryPath) ==
    LET text     == pathText(entryPath)
        pathEnd  == firstOf(text, {"?", "#"})
        rest     == SubSeq(text, pathEnd, Len(text))
        queryEnd == firstOf(rest, {"#"})
    IN  [scheme   |-> sch,
         path     |-> SubSeq(text, 1, pathEnd - 1),
         query    |-> IF rest # <<>> /\ rest[1] = "?"
                      THEN SubSeq(rest, 2, queryEnd - 1) ELSE <<>>,
         fragment |-> SubSeq(rest, queryEnd + 1, Len(rest))]

---------------------------------------------------------------------------
(* The search providers.  inv holds the closure variables of one          *)
(* invocation of provideFileSearchResults (engine "name") or of           *)
(* provideTextSearchResults (engine "text"), the stack of searchInFolder  *)
(* calls, and pc, the store call the invocation awaits.                   *)

NewInvocation(engine, pattern, isRegExp, isCaseSensitive, incl, maxResults) ==
    [engine |-> engine, pattern |-> pattern, isRegExp |-> isRegExp,
     isCaseSensitive |-> isCaseSensitive, includes |-> incl,
     maxResults |-> maxResults,
     token |-> FALSE,      \* token.isCancellationRequested
     pc |-> "begin", phase |-> "includes", i |-> 1,
     stack |-> <<>>,       \* the searchInFolder calls: [folder, entries left]
     results |-> <<>>,     \* results (engine "name")
     events |-> <<>>,      \* what progress.report was given (engine "text")
     resultCount |-> 0, limitHit |-> FALSE,
     calls |-> <<>>,       \* the store calls started
     faults |-> {},        \* the store calls that failed for an outside cause
     file |-> Root, lines |-> <<>>, lineNumber |-> 0, lastIndex |-> 0]

Top(s) == s.stack[Len(s.stack)]

Pop(s) == [s EXCEPT !.stack = SubSeq(@, 1, Len(@) - 1)]

\* The entries left to the innermost searchInFolder call.
WithEntries(s, entries) == [s EXCEPT !.stack[Len(s.stack)].entries = entries]

Await(s, fn, p) ==
    [s EXCEPT !.pc = fn, !.calls = Append(@, StoreCall(fn, p, Root, ""))]

\* The test without its || limitHit.
Halted_tokenOnly(s) == s.token

\* token.isCancellationRequested, and in the text search || limitHit.
Halted(s) == s.token \/ (s.engine = "text" /\ s.limitHit)

\* options.maxResults && n >= options.maxResults
CapReached(s, n) == s.maxResults # 0 /\ n >= s.maxResults

RECURSIVE searchInFolder(_, _)
RECURSIVE forLoop(_)
RECURSIVE afterFolder(_)
RECURSIVE includesLoop(_)
RECURSIVE afterIncludes(_)

\* searchInFolder(folderPath) is called: up to its await of readdir.
searchInFolder(s, folderPath) ==
    IF Halted(s) THEN afterFolder(s)
    ELSE Await([s EXCEPT !.stack = Append(@, [folder |-> folderPath,
                                              entries |-> <<>>])],
               "readdir", folderPath)

\* The top of for (const entry of entries): up to the await of stat.
forLoop(s) ==
    IF Top(s).entries = <<>> \/ Halted(s) THEN afterFolder(Pop(s))
    ELSE Await(s, "stat", Join(Top(s).folder, Head(Top(s).entries)))

\* A searchInFolder call has returned to its caller.
afterFolder(s) ==
    IF s.stack # <<>> THEN forLoop(s)
    ELSE IF s.phase = "includes" THEN includesLoop(s)
    ELSE [s EXCEPT !.pc = "done"]

\* for (const folder of options.includes || [])
includesLoop(s) ==
    IF s.i > Len(s.includes) \/ Halted(s) THEN afterIncludes(s)
    ELSE searchInFolder([s EXCEPT !.i = @ + 1], s.includes[s.i])

\* if (!options.includes || options.includes.length === 0)
afterIncludes(s) ==
    IF s.includes = <<>> THEN searchInFolder([s EXCEPT !.phase = "root"], Root)
    ELSE [s EXCEPT !.pc = "done"]

begin(s) == includesLoop(s)

\* A failed listing that ends the whole search.
readdirDone_abortsSearch(s, r) ==
    IF r.err # "" THEN [s EXCEPT !.pc = "done"]
    ELSE forLoop(WithEntries(s, r.entries))

\* fs.readdir returned r.
readdirDone(s, r) ==
    IF r.err # "" THEN afterFolder(Pop(s))
    ELSE forLoop(WithEntries(s, r.entries))

\* searchInFile without its first test.
searchInFile_unguarded(s, filePath) ==
    Await([s EXCEPT !.file = filePath], "readFile", filePath)

\* searchInFile(filePath) is called: up to its await of readFile.
searchInFile(s, filePath) ==
    IF Halted(s) THEN forLoop(s)
    ELSE Await([s EXCEPT !.file = filePath], "readFile", filePath)

\* fs.stat of the entry returned r, in the filename search.
nameStatDone(s, r) ==
    LET entry     == Head(Top(s).entries)
        entryPath == Join(Top(s).folder, entry)
        rest      == WithEntries(s, Tail(Top(s).entries))
        pushed    == [rest EXCEPT !.results = Append(@, parse(scheme, entryPath))]
    IN  IF r.err # "" THEN afterFolder(Pop(s))
        ELSE IF r.kind = "dir"
        THEN IF CapReached(s, Len(s.results)) THEN afterFolder(Pop(s))
             ELSE searchInFolder(rest, entryPath)
        ELSE IF includes(toLowerCase(Spell(entry)), toLowerCase(s.pattern))
        THEN IF CapReached(pushed, Len(pushed.results))
             THEN afterFolder(Pop(pushed))
             ELSE forLoop(pushed)
        ELSE forLoop(rest)

\* fs.stat of the entry returned r, in the text search.
textStatDone(s, r) ==
    LET entryPath == Join(Top(s).folder, Head(Top(s).entries))
        rest      == WithEntries(s, Tail(Top(s).entries))
    IN  IF r.err # "" THEN afterFolder(Pop(s))
        ELSE IF r.kind = "dir" THEN searchInFolder(rest, entryPath)
        ELSE searchInFile(rest, entryPath)

\* The top of for (let lineNumber ...): up to the first test of the while.
lineLoop(s) ==
    IF s.lineNumber >= Len(s.lines) \/ Halted(s) THEN forLoop(s)
    ELSE [s EXCEPT !.pc = "scan", !.lastIndex = 0]

\* fs.readFile returned r.
readFileDone(s, r) ==
    IF r.err # "" THEN forLoop(s)
    ELSE lineLoop([s EXCEPT !.lines = split(decode(r.data)), !.lineNumber = 0])

\* progress.report of a match of this length at this index of the line.
Report(s, line, index, length) ==
    [s EXCEPT !.events = Append(@, [uri |-> parse(scheme, s.file),
                                    line |-> s.lineNumber,
                                    start |-> index, end |-> index + length,
                                    preview |-> line]),
              !.resultCount = @ + 1]

\* One test of the while loop of the line, and its body when the test holds.
scanStep(s) ==
    LET line         == s.lines[s.lineNumber + 1]
        searchLine   == IF s.isCaseSensitive THEN line ELSE toLowerCase(line)
        searchString == IF s.isCaseSensitive THEN s.pattern
                        ELSE toLowerCase(s.pattern)
        match        == exec(RegExp(s.pattern, ~s.isCaseSensitive), line,
                             s.lastIndex)
        matchIndex   == IF s.isRegExp THEN match.index
                        ELSE indexOf(searchLine, searchString, s.lastIndex)
        length       == IF s.isRegExp THEN match.length ELSE Len(searchString)
        reported     == Report(s, line, matchIndex, length)
    IN  IF matchIndex = -1 \/ s.limitHit \/ s.token
        THEN lineLoop([s EXCEPT !.lineNumber = @ + 1])
        ELSE IF CapReached(reported, reported.resultCount)
        THEN forLoop([reported EXCEPT !.limitHit = TRUE])
        ELSE [reported EXCEPT !.lastIndex = IF s.isRegExp THEN match.lastIndex
                                            ELSE matchIndex + 1]

---------------------------------------------------------------------------
(* The host's search invocations, over a store that does not change. *)

\* The filename searches: names and patterns after the spec's example
\* (a.ts, A.TS, b.js), "S" being in every name whatever its case; and
\* stores whose entries have a name that holds a "#".
SearchNames == {"a.ts", "A.TS", "b.js"}
MarkedNames == {"a#b"}
NamePatterns == {<<"a">>, <<"S">>}

\* The text searches: file bytes and queries.
TextNames == {"a", "b"}
TextData == {<<"A", "a">>, <<"a", LF, "b", "a">>, <<"U0130", "a">>}
TextQueries ==
    {[pattern |-> <<"a">>, isRegExp |-> FALSE, isCaseSensitive |-> FALSE],
     [pattern |-> <<"a">>, isRegExp |-> FALSE, isCaseSensitive |-> TRUE],
     [pattern |-> <<>>, isRegExp |-> FALSE, isCaseSensitive |-> FALSE],
     [pattern |-> <<"A">>, isRegExp |-> TRUE, isCaseSensitive |-> FALSE],
     [pattern |-> <<"a", "*">>, isRegExp |-> TRUE, isCaseSensitive |-> TRUE]}

\* options.includes: none, the root, one folder, two different folders.
IncludeChoices(names) ==
    {<<>>, <<Root>>}
      \cup {<<<<n>>>> : n \in names}
      \cup UNION {{<<<<n>>, <<m>>>> : m \in names \ {n}} : n \in names}

InitName ==
    /\ store \in TreeStores(SearchNames, {<<>>}, MaxSearchEntries)
                 \cup TreeStores(MarkedNames, {<<>>}, MaxSearchEntries)
    /\ prev = store
    /\ last = NoCall
    /\ inv \in {NewInvocation("name", p, FALSE, FALSE, inc, m) :
                    p \in NamePatterns, inc \in IncludeChoices(SearchNames),
                    m \in 0..MaxCap}
    /\ peer = NoInv

InitText ==
    /\ store \in TreeStores(TextNames, TextData, MaxSearchEntries)
    /\ prev = store
    /\ last = NoCall
    /\ inv \in {NewInvocation("text", q.pattern, q.isRegExp, q.isCaseSensitive,
                              inc, m) :
                    q \in TextQueries, inc \in IncludeChoices(TextNames),
                    m \in 0..MaxCap}
    /\ peer = NoInv

\* The invocation begins: it runs to its first await.
Begin ==
    /\ inv.engine # ""
    /\ inv.pc = "begin"
    /\ inv' = begin(inv)
    /\ UNCHANGED <<store, prev, last, peer>>

\* The listing comes in any order of the folder's entries.
ReaddirDone ==
    /\ inv.engine # ""
    /\ inv.pc = "readdir"
    /\ \E ord \in Orders(ChildNames(store, Top(inv).folder)) :
           inv' = readdirDone(inv, fs_readdir(store, Top(inv).folder, ord))
    /\ UNCHANGED <<store, prev, last, peer>>

StatDone ==
    /\ inv.engine # ""
    /\ inv.pc = "stat"
    /\ LET r == fs_stat(store, Join(Top(inv).folder, Head(Top(inv).entries)))
       IN  inv' = IF inv.engine = "name" THEN nameStatDone(inv, r)
                  ELSE textStatDone(inv, r)
    /\ UNCHANGED <<store, prev, last, peer>>

ReadFileDone ==
    /\ inv.engine # ""
    /\ inv.pc = "readFile"
    /\ inv' = readFileDone(inv, fs_readFile(store, inv.file))
    /\ UNCHANGED <<store, prev, last, peer>>

\* The model follows a line's while loop for MaxEvents reports.
ScanStep ==
    /\ inv.engine # ""
    /\ inv.pc = "scan"
    /\ Len(inv.events) < MaxEvents
    /\ inv' = scanStep(inv)
    /\ UNCHANGED <<store, prev, last, peer>>

\* The host cancels the token, before the invocation begins or while it
\* runs.
Cancel ==
    /\ inv.engine # ""
    /\ inv.pc # "done"
    /\ ~inv.token
    /\ inv' = [inv EXCEPT !.token = TRUE]
    /\ UNCHANGED <<store, prev, last, peer>>

\* A store call in flight fails for a cause outside the store (code EIO):
\* the await throws.
Faulted(fn, p) ==
    [inv EXCEPT !.faults = @ \cup {[fn |-> fn, path |-> p]}]

ReaddirFails ==
    /\ inv.engine # ""
    /\ inv.pc = "readdir"
    /\ Cardinality(inv.faults) < MaxFaults
    /\ inv' = readdirDone(Faulted("readdir", Top(inv).folder),
                          [err |-> "EIO", entries |-> <<>>])
    /\ UNCHANGED <<store, prev, last, peer>>

StatFails ==
    /\ inv.engine # ""
    /\ inv.pc = "stat"
    /\ Cardinality(inv.faults) < MaxFaults
    /\ LET entryPath == Join(Top(inv).folder, Head(Top(inv).entries))
           r         == [err |-> "EIO", kind |-> ""]
       IN  inv' = IF inv.engine = "name"
                  THEN nameStatDone(Faulted("stat", entryPath), r)
                  ELSE textStatDone(Faulted("stat", entryPath), r)
    /\ UNCHANGED <<store, prev, last, peer>>

ReadFileFails ==
    /\ inv.engine # ""
    /\ inv.pc = "readFile"
    /\ Cardinality(inv.faults) < MaxFaults
    /\ inv' = readFileDone(Faulted("readFile", inv.file),
                           [err |-> "EIO", data |-> <<>>])
    /\ UNCHANGED <<store, prev, last, peer>>

NextName == Begin \/ ReaddirDone \/ StatDone \/ Cancel

NextText == Begin \/ ReaddirDone \/ StatDone \/ ReadFileDone \/ ScanStep \/ Cancel

SpecNameSearch == InitName /\ [][NextName]_vars

SpecTextSearch == InitText /\ [][NextText]_vars

SpecSearch == (InitName \/ InitText) /\ [][NextText]_vars

\* Searches with no result cap that are not cancelled, over a store some
\* of whose calls fail.
InitFaults == (InitName \/ InitText) /\ inv.maxResults = 0

NextFaults ==
    \/ Begin
    \/ ReaddirDone
    \/ StatDone
    \/ ReadFileDone
    \/ ScanStep
    \/ ReaddirFails
    \/ StatFails
    \/ ReadFileFails

SpecSearchFaults == InitFaults /\ [][NextFaults]_vars

---------------------------------------------------------------------------
(* Two search invocations at a time.  One runs until it awaits a store    *)
(* call; the host's event loop then resumes either of them.  Over a store *)
(* that does not change a folder's listing is the same every time.        *)

Listing(p) == CHOOSE ord \in Orders(ChildNames(store, p)) : TRUE

\* The invocation s goes on from the await it is suspended at, to its next.
Resumption(s) ==
    CASE s.pc = "begin"    -> begin(s)
      [] s.pc = "readdir"  ->
             readdirDone(s, fs_readdir(store, Top(s).folder,
                                       Listing(Top(s).folder)))
      [] s.pc = "stat"     ->
             LET r == fs_stat(store, Join(Top(s).folder, Head(Top(s).entries)))
             IN  IF s.engine = "name" THEN nameStatDone(s, r)
                 ELSE textStatDone(s, r)
      [] s.pc = "readFile" -> readFileDone(s, fs_readFile(store, s.file))
      [] s.pc = "scan"     -> scanStep(s)
      [] OTHER             -> s

\* Closure variables kept in one place for all text searches.
Resumed_sharedCount(s, other) ==
    IF s.engine = "text" /\ other.engine = "text"
    THEN [s EXCEPT !.limitHit = other.limitHit, !.resultCount = other.resultCount]
    ELSE s

\* What the invocation s finds in its closure variables when it is resumed
\* after the invocation other has run: results, limitHit, resultCount and
\* searchPattern are declared inside the provider's method, one set for
\* each invocation.
Resumed(s, other) == s

PairSearches ==
    {NewInvocation("name", <<"a">>, FALSE, FALSE, <<>>, m) : m \in 0..1}
      \cup {NewInvocation("text", <<"a">>, FALSE, FALSE, <<>>, m) : m \in 0..1}
      \cup {NewInvocation("text", <<"A">>, TRUE, FALSE, <<>>, m) : m \in 0..1}

InitPair ==
    /\ store \in TreeStores(TextNames, TextData, MaxPairEntries)
    /\ prev = store
    /\ last = NoCall
    /\ inv \in PairSearches
    /\ peer \in PairSearches

\* The running invocation goes on to its next await.
Step ==
    /\ inv.engine # ""
    /\ inv.pc # "done"
    /\ inv.pc = "scan" => Len(inv.events) < MaxEvents
    /\ inv' = Resumption(inv)
    /\ UNCHANGED <<store, prev, last, peer>>

\* The running invocation awaits (or has ended, or has not begun) and the
\* other one is resumed.
Switch ==
    /\ inv.engine # "" /\ peer.engine # ""
    /\ inv.pc # "scan"
    /\ inv' = Resumed(peer, inv)
    /\ peer' = inv
    /\ UNCHANGED <<store, prev, last>>

NextPair == Step \/ Switch \/ Cancel

SpecTwoSearches == InitPair /\ [][NextPair]_vars

---------------------------------------------------------------------------
(* What the claims speak of. *)

\* The last call was op, on identifiers of the provider's scheme.
Called(op) ==
    /\ last.op = op
    /\ last.a.scheme = scheme
    /\ last.b.scheme \in {scheme, ""}

\* The calls of this name the last facade call started.
CallsOf(fn) == {i \in DOMAIN last.calls : last.calls[i].fn = fn}

\* The tree at p in st, by path relative to p.
TreeAt(st, p) ==
    [r \in {SubSeq(q, Len(p) + 1, Len(q)) : q \in Subtree(st, p)} |-> st[p \o r]]

\* The store is as it was outside the trees at p and at q.
SameOutside(p, q) ==
    /\ {x \in DOMAIN store : ~IsPrefix(p, x) /\ ~IsPrefix(q, x)}
         = {x \in DOMAIN prev : ~IsPrefix(p, x) /\ ~IsPrefix(q, x)}
    /\ \A x \in DOMAIN prev :
           ~IsPrefix(p, x) /\ ~IsPrefix(q, x) => store[x] = prev[x]

---------------------------------------------------------------------------
(* C1: copy fails with NotFound when the source does not exist and with   *)
(* AlreadyExists when source and destination exist and overwrite is       *)
(* false; the caller receives exactly that class and the store is left    *)
(* unchanged.                                                             *)
C1_CopyRaisesNotFoundOrExists ==
    Called("copy") =>
        /\ last.a.path \notin DOMAIN prev =>
               last.result = "NotFound" /\ store = prev
        /\ (/\ last.a.path \in DOMAIN prev
            /\ last.b.path \in DOMAIN prev
            /\ ~last.overwrite) =>
               last.result = "AlreadyExists" /\ store = prev

(* C5: write with create = false on an identifier that does not exist     *)
(* fails with NotFound, starts no backing-store write, leaves the store   *)
(* unchanged, and the identifier still does not exist.                    *)
C5_WriteMissingNoCreate ==
    (Called("writeFile") /\ ~last.create /\ last.a.path \notin DOMAIN prev) =>
        /\ last.result = "NotFound"
        /\ CallsOf("writeFile") = {}
        /\ store = prev
        /\ last.a.path \notin DOMAIN store

C5_Witness ==
    /\ Called("writeFile") /\ ~last.create /\ last.overwrite
    /\ last.a.path \notin DOMAIN prev
    /\ Parent(last.a.path) \in DOMAIN prev
    /\ last.result = "NotFound"

(* C6: write on an existing file: with overwrite = false it fails with    *)
(* AlreadyExists, for either value of create, and the store is unchanged; *)
(* with overwrite = true it succeeds, the file holds exactly the new      *)
(* bytes and every other entry is as it was.                              *)
C6_WriteExistingFile ==
    (/\ Called("writeFile")
     /\ last.a.path \in DOMAIN prev
     /\ prev[last.a.path].kind = "file") =>
        /\ ~last.overwrite => last.result = "AlreadyExists" /\ store = prev
        /\ last.overwrite =>
               /\ last.result = "OK"
               /\ store = [prev EXCEPT ![last.a.path] = FileNode(last.content)]

\* A two-byte file overwritten by one byte.
C6_Witness ==
    /\ Called("writeFile") /\ last.overwrite /\ ~last.create
    /\ last.a.path \in DOMAIN prev
    /\ prev[last.a.path] = FileNode(<<"y", "z">>)
    /\ last.content = <<"x">>
    /\ store[last.a.path].data = <<"x">>

(* C7: rename(a, b, overwrite = true) where a and b exist, differ and     *)
(* neither path contains the other: the call succeeds, b holds what a     *)
(* held (a file's bytes, a directory's tree), nothing is left at a, and   *)
(* every entry outside a and b is as it was.                              *)
C7_RenameOverwrites ==
    (/\ Called("rename") /\ last.overwrite
     /\ last.a.path \in DOMAIN prev
     /\ last.b.path \in DOMAIN prev
     /\ ~IsPrefix(last.a.path, last.b.path)
     /\ ~IsPrefix(last.b.path, last.a.path)) =>
        /\ last.result = "OK"
        /\ TreeAt(store, last.b.path) = TreeAt(prev, last.a.path)
        /\ Subtree(store, last.a.path) = {}
        /\ SameOutside(last.a.path, last.b.path)

\* Two files of different content.
C7_Witness ==
    /\ Called("rename") /\ last.overwrite
    /\ last.a.path \in DOMAIN prev /\ last.b.path \in DOMAIN prev
    /\ prev[last.a.path].kind = "file" /\ prev[last.b.path].kind = "file"
    /\ prev[last.a.path].data # prev[last.b.path].data
    /\ last.result = "OK"
    /\ store[last.b.path] = prev[last.a.path]
    /\ last.a.path \notin DOMAIN store

(* C8: copy of a directory to a destination that does not exist, under   *)
(* missing parent directories or not (no file stands in the destination's *)
(* path), succeeds, leaves under the destination exactly the source's     *)
(* tree (every file with its bytes, every subdirectory) and leaves the    *)
(* source's tree unchanged.                                               *)
C8_CopyTreeReproduced ==
    (/\ Called("copy")
     /\ last.a.path \in DOMAIN prev
     /\ prev[last.a.path].kind = "dir"
     /\ last.b.path \notin DOMAIN prev
     /\ MissingCode(prev, last.b.path) = "ENOENT") =>
        /\ last.result = "OK"
        /\ TreeAt(store, last.b.path) = TreeAt(prev, last.a.path)
        /\ TreeAt(store, last.a.path) = TreeAt(prev, last.a.path)

(* C9: remove with recursive = false on a directory that has an entry     *)
(* fails and deletes nothing; and the recursive flag of every removal     *)
(* the call starts is the caller's.                                       *)
C9_RemoveNonEmptyFails ==
    Called("delete") =>
        /\ \A i \in CallsOf("rm") :
               last.calls[i].opt = (IF last.recursive THEN "recursive" ELSE "")
        /\ (/\ ~last.recursive
            /\ last.a.path \in DOMAIN prev
            /\ Children(prev, last.a.path) # {}) =>
               last.result # "OK" /\ store = prev

\* A directory that holds a directory that holds a file.
C9_Witness ==
    /\ Called("delete") /\ ~last.recursive
    /\ last.a.path # Root
    /\ \E c \in Children(prev, last.a.path) : Children(prev, c) # {}
    /\ last.result = "Unavailable"
    /\ CallsOf("rm") # {}

(* C10: every facade operation given an identifier of another scheme,     *)
(* as its first or as its second identifier, fails with Unavailable       *)
(* naming that scheme, starts no backing-store call and leaves the store  *)
(* unchanged.                                                             *)
C10_WrongSchemeUnavailable ==
    (/\ last.op # ""
     /\ \/ last.a.scheme # scheme
        \/ last.op \in {"rename", "copy"} /\ last.b.scheme # scheme) =>
        /\ last.result = "Unavailable"
        /\ last.msg = (IF last.a.scheme # scheme THEN last.a.scheme
                       ELSE last.b.scheme)
        /\ last.calls = <<>>
        /\ store = prev

\* rename with a good first and a wrong second identifier, the first one
\* existing.
C10_Witness ==
    /\ last.op = "rename"
    /\ last.a.scheme = scheme /\ last.b.scheme # scheme
    /\ last.a.path \in DOMAIN prev /\ last.a.path # Root
    /\ last.result = "Unavailable"
    /\ last.calls = <<>>

---------------------------------------------------------------------------
(* The searches. *)

\* The folders an invocation searches.
SearchRoots == IF inv.includes = <<>> THEN {Root}
               ELSE {inv.includes[k] : k \in DOMAIN inv.includes}

\* The files under the folders searched whose name holds the pattern,
\* whatever the case.
MatchingFiles ==
    {p \in DOMAIN store :
        /\ store[p].kind = "file"
        /\ \E r \in SearchRoots : IsProperPrefix(r, p)
        /\ includes(toLowerCase(Spell(Basename(p))), toLowerCase(inv.pattern))}

\* The store calls of this name the invocation has started.
StartedCalls(fn) == {k \in DOMAIN inv.calls : inv.calls[k].fn = fn}

(* C2: a filename search given maxResults >= 1 returns at most maxResults *)
(* identifiers, and exactly maxResults when it was not cancelled and at   *)
(* least that many files match.                                           *)
C2_NameSearchAtMostMaxResults ==
    (inv.engine = "name" /\ inv.pc = "done" /\ inv.maxResults >= 1) =>
        /\ Len(inv.results) <= inv.maxResults
        /\ (~inv.token /\ Cardinality(MatchingFiles) >= inv.maxResults) =>
               Len(inv.results) = inv.maxResults

\* The identifier of the entry at path p: the one the facade takes for it.
IdentifierOf(p) ==
    [scheme |-> scheme, path |-> pathText(p), query |-> <<>>, fragment |-> <<>>]

(* C11: a filename search with no result cap that was not cancelled ends  *)
(* with exactly the identifiers of the files under the folders searched   *)
(* whose own name holds the pattern, whatever the case: no directory, no  *)
(* other file, none missing.                                              *)
C11_NameSearchReturnsMatchingFiles ==
    (inv.engine = "name" /\ inv.pc = "done" /\ inv.maxResults = 0
                         /\ ~inv.token) =>
        {inv.results[k] : k \in DOMAIN inv.results}
            = {IdentifierOf(p) : p \in MatchingFiles}

(* C3: in a text search given maxResults >= 1 the progress events never   *)
(* outnumber maxResults; limitHit is set exactly when their count has     *)
(* reached maxResults (so it is what the search returns); and once it is  *)
(* set no progress event is reported and no store call is started.        *)
C3_TextSearchStopsAtLimit ==
    /\ []((inv.engine = "text" /\ inv.maxResults >= 1) =>
             /\ Len(inv.events) <= inv.maxResults
             /\ inv.resultCount = Len(inv.events)
             /\ inv.limitHit <=> (inv.resultCount >= inv.maxResults))
    /\ [][(inv.engine = "text" /\ inv.limitHit) =>
             (inv'.events = inv.events /\ inv'.calls = inv.calls)]_vars

\* The limit of 2 was hit in the first of two files with a match, and the
\* second was never read.
C3_Witness ==
    /\ inv.engine = "text" /\ inv.pc = "done" /\ ~inv.token
    /\ inv.maxResults = 2 /\ inv.limitHit /\ Len(inv.events) = 2
    /\ inv.includes = <<>>
    /\ Cardinality({p \in DOMAIN store : store[p].kind = "file"}) = 2
    /\ Cardinality(StartedCalls("readFile")) = 1

(* C4: in both searches, once the token is cancelled no store call is     *)
(* started; and an invocation whose token was cancelled before it began   *)
(* ends at once with no store call, no result and no progress event.      *)
C4_NoStoreCallAfterCancel ==
    [][/\ inv.token => inv'.calls = inv.calls
       /\ (inv.token /\ inv.pc = "begin") =>
              /\ inv'.pc = "done"
              /\ inv'.calls = <<>>
              /\ inv'.results = <<>>
              /\ inv'.events = <<>>]_vars

\* The token was cancelled while the stat of the first of several entries
\* of the root was in flight; the search ended with no further call.
C4_Witness ==
    /\ inv.engine = "text" /\ inv.pc = "done" /\ inv.token
    /\ Cardinality(Children(store, Root)) >= 2
    /\ Len(inv.calls) = 2
    /\ inv.calls[2].fn = "stat"

---------------------------------------------------------------------------
(* The matches of a line, as the claims word them. *)

\* The members of a set of numbers, in increasing order.
RECURSIVE Ascending(_)
Ascending(S) ==
    IF S = {} THEN <<>>
    ELSE LET least == CHOOSE i \in S : \A j \in S : i <= j
         IN  <<least>> \o Ascending(S \ {least})

\* pattern stands in line at the zero-based index i, whatever the case
\* when ignoreCase.
StandsAt(line, pattern, i, ignoreCase) ==
    /\ i + Len(pattern) <= Len(line)
    /\ \A k \in 1..Len(pattern) :
           Canonicalize(line[i + k], ignoreCase)
               = Canonicalize(pattern[k], ignoreCase)

\* Literal mode: a match at every position where the pattern occurs.
LiteralMatches(line, pattern, ignoreCase) ==
    LET at     == {i \in 0..Len(line) : StandsAt(line, pattern, i, ignoreCase)}
        starts == Ascending(at)
    IN  [k \in DOMAIN starts |->
            [start |-> starts[k], end |-> starts[k] + Len(pattern)]]

\* Regex mode: the successive matches from the index from, left to right,
\* none overlapping the one before; c* matches the run of c where it is
\* tried, an empty run included.
RECURSIVE RegexMatches(_, _, _, _)
RegexMatches(line, pattern, ignoreCase, from) ==
    IF from > Len(line) THEN <<>>
    ELSE IF Len(pattern) = 2 /\ pattern[2] = "*"
    THEN LET run == runLength(Canonical(line, ignoreCase),
                              Canonicalize(pattern[1], ignoreCase), from)
         IN  <<[start |-> from, end |-> from + run]>>
                 \o RegexMatches(line, pattern, ignoreCase,
                                 IF run = 0 THEN from + 1 ELSE from + run)
    ELSE LET at == {i \in from..Len(line) :
                       StandsAt(line, pattern, i, ignoreCase)}
             i  == CHOOSE i \in at : \A j \in at : i <= j
         IN  IF at = {} THEN <<>>
             ELSE <<[start |-> i, end |-> i + Len(pattern)]>>
                      \o RegexMatches(line, pattern, ignoreCase,
                                      i + Len(pattern))

\* The lines of the file at path p.
LinesOf(p) == split(decode(store[p].data))

\* The matches of line n of the file at p, for the query of the invocation.
MatchesOf(p, n) ==
    IF inv.isRegExp
    THEN RegexMatches(LinesOf(p)[n + 1], inv.pattern, ~inv.isCaseSensitive, 0)
    ELSE LiteralMatches(LinesOf(p)[n + 1], inv.pattern, ~inv.isCaseSensitive)

\* What was reported for line n of the file at p, in the order reported.
ReportedOf(p, n) ==
    SelectSeq(inv.events,
              LAMBDA e : e.uri = IdentifierOf(p) /\ e.line = n)

\* The files under the folders searched.
SearchedFiles ==
    {p \in DOMAIN store :
        /\ store[p].kind = "file"
        /\ \E r \in SearchRoots : IsProperPrefix(r, p)}

(* C12: a text search reports, for every line of every file searched,     *)
(* each match of the line once and in increasing column order, with the   *)
(* line's number, the columns of the match and the line itself as the     *)
(* preview: at any moment what was reported for a line is the beginning   *)
(* of the line's matches, and all of them when a search with no result    *)
(* cap ends without having been cancelled.                                *)
C12_EachMatchReportedOnce ==
    inv.engine = "text" =>
        \A p \in SearchedFiles : \A n \in 0..(Len(LinesOf(p)) - 1) :
            LET reported == ReportedOf(p, n)
                matches  == MatchesOf(p, n)
            IN  /\ Len(reported) <= Len(matches)
                /\ \A k \in DOMAIN reported :
                       /\ reported[k].start = matches[k].start
                       /\ reported[k].end = matches[k].end
                       /\ reported[k].preview = LinesOf(p)[n + 1]
                /\ (inv.pc = "done" /\ inv.maxResults = 0 /\ ~inv.token) =>
                       Len(reported) = Len(matches)

---------------------------------------------------------------------------
(* Facade calls in sequence and store failures. *)

(* C13: once write(id, bytes) with create = true has succeeded, a read of *)
(* id from the store it left succeeds and returns exactly bytes, and      *)
(* changes nothing.                                                       *)
C13_ReadReturnsWhatWasWritten ==
    (Called("writeFile") /\ last.create /\ last.result = "OK") =>
        LET read == readFile(store, last.a)
        IN  /\ read.result = "OK"
            /\ read.data = last.content
            /\ Len(read.data) = Len(last.content)
            /\ read.store = store

\* Two bytes written over a file of one byte, and two into a new file.
C13_Witness ==
    /\ Called("writeFile") /\ last.create /\ last.result = "OK"
    /\ last.content = <<"y", "z">>
    /\ \/ last.a.path \notin DOMAIN prev
       \/ last.overwrite /\ prev[last.a.path] = FileNode(<<"x">>)
    /\ readFile(store, last.a).data = <<"y", "z">>

\* What the store answers to a call started on st: its error code ("":
\* none) and the store it leaves.  The bytes a write carries do not bear on
\* any code.
Answer(st, call) ==
    LET same(code) == [err |-> code, store |-> st]
    IN  CASE call.fn = "exists"    -> same("")
          [] call.fn = "stat"      -> same(fs_stat(st, call.path).err)
          [] call.fn = "readdir"   -> same(fs_readdir(st, call.path, <<>>).err)
          [] call.fn = "readFile"  -> same(fs_readFile(st, call.path).err)
          [] call.fn = "writeFile" ->
                 fs_writeFile(st, call.path, <<>>, call.opt)
          [] call.fn = "mkdir"     -> fs_mkdir(st, call.path)
          [] call.fn = "rm"        ->
                 fs_rm(st, call.path, TRUE, call.opt = "recursive")
          [] call.fn = "rename"    -> fs_rename(st, call.path, call.to)

\* The error codes the store answered to the calls, started one after the
\* other on st.
RECURSIVE Answers(_, _)
Answers(st, calls) ==
    IF calls = <<>> THEN <<>>
    ELSE <<Answer(st, Head(calls)).err>>
             \o Answers(Answer(st, Head(calls)).store, Tail(calls))

\* The codes of the store calls of the last facade call that failed.
Failures == SelectSeq(Answers(prev, last.calls), LAMBDA code : code # "")

\* The error class the facade is to raise for a store failure of this code.
ClassOf(code) ==
    IF code \in {"ENOENT", "ENOTDIR"} THEN "NotFound"
    ELSE IF code = "EEXIST" THEN "AlreadyExists"
    ELSE IF code = "EISDIR" THEN "IsADirectory"
    ELSE "Unavailable"

(* C14: when a backing-store call of a facade operation fails, the        *)
(* operation raises the error class of that failure's code (NotFound for  *)
(* not-found and not-a-directory, AlreadyExists, IsADirectory, and        *)
(* Unavailable with the failure's message for any other code), and it     *)
(* never succeeds after a store call failed.                              *)
C14_StoreFailureRaised ==
    (last.op # "" /\ Failures # <<>>) =>
        /\ last.result # "OK"
        /\ last.result = ClassOf(Failures[1])
        /\ last.result = "Unavailable" => last.msg = Failures[1]

\* A copy whose write, after the calls before it succeeded, met a
\* directory.
C14_Witness ==
    /\ Called("copy") /\ last.result = "IsADirectory"
    /\ Len(last.calls) >= 5
    /\ last.calls[Len(last.calls)].fn = "writeFile"
    /\ Failures = <<"EISDIR">>

(* C18: rename starts the removal of new only when overwrite is true and  *)
(* new existed, as a recursive removal and before the rename step; with   *)
(* overwrite false it starts none; and when the rename step fails after   *)
(* the removal, the call raises an error, new is absent and old is        *)
(* exactly as it was.                                                     *)
C18_RenameRemovesThenRenames ==
    Called("rename") =>
        /\ \A i \in CallsOf("rm") :
               /\ last.overwrite /\ last.b.path \in DOMAIN prev
               /\ last.calls[i] = StoreCall("rm", last.b.path, Root, "recursive")
               /\ \A j \in CallsOf("rename") : i < j
        /\ (CallsOf("rm") # {} /\ CallsOf("rename") # {}
                               /\ last.result # "OK") =>
               /\ last.b.path \notin DOMAIN store
               /\ TreeAt(store, last.a.path) = TreeAt(prev, last.a.path)

\* The paths of the tree at p, relative to p.
RelativePaths(st, p) == DOMAIN TreeAt(st, p)

(* C21: copy returns, and the entries it has created are finitely many:   *)
(* the destination, its missing parents and one entry for each entry of   *)
(* the source's tree; also when the destination lies inside the source.   *)
C21_CopyTerminates ==
    Called("copy") =>
        /\ last.result # "Unbounded"
        /\ DOMAIN store \ DOMAIN prev \subseteq
               {SubSeq(last.b.path, 1, k) : k \in 0..Len(last.b.path)}
                 \cup {last.b.path \o r : r \in RelativePaths(prev, last.a.path)}

(* C22: after rename(old, new) of an existing old, whether it returned or *)
(* raised, what was at old is at old or at new: a file with its bytes, a  *)
(* directory with its whole tree.                                         *)
C22_RenameKeepsSource ==
    (Called("rename") /\ last.a.path \in DOMAIN prev) =>
        \/ TreeAt(store, last.a.path) = TreeAt(prev, last.a.path)
        \/ TreeAt(store, last.b.path) = TreeAt(prev, last.a.path)

(* C23: after copy(src, dst) with overwrite = true has succeeded, src a   *)
(* directory and dst a directory that existed, the tree at dst is the     *)
(* tree that was at src: the same relative paths with the same bytes and  *)
(* no entry left of what dst held.                                        *)
C23_CopyOverDirectoryReplaces ==
    (/\ Called("copy") /\ last.overwrite /\ last.result = "OK"
     /\ last.a.path \in DOMAIN prev /\ prev[last.a.path].kind = "dir"
     /\ last.b.path \in DOMAIN prev /\ prev[last.b.path].kind = "dir") =>
        TreeAt(store, last.b.path) = TreeAt(prev, last.a.path)

---------------------------------------------------------------------------
(* Searches: cancellation, failures, termination. *)

(* C15: in both searches, once the token is cancelled no identifier is    *)
(* added to the results and no progress event is reported, a store call   *)
(* being in flight or not when the cancellation arrives.                  *)
C15_NoMatchAfterCancel ==
    [][inv.token => (inv'.results = inv.results /\ inv'.events = inv.events)]_vars

\* The folders whose listing failed, the files whose stat or read failed.
FailedFolders == {f.path : f \in {g \in inv.faults : g.fn = "readdir"}}

FailedFiles ==
    {f.path : f \in {g \in inv.faults :
                        /\ g.fn \in {"stat", "readFile"}
                        /\ g.path \in DOMAIN store
                        /\ store[g.path].kind = "file"}}

\* p lies outside every folder whose listing failed.
OutsideFailed(p) == \A d \in FailedFolders : ~IsPrefix(d, p)

\* The search has reported for the file at p what it reports for it when
\* no call fails: its identifier if its name matches, in the filename
\* search; as many events for each of its lines as the line has matches,
\* in the text search.
Found(p) ==
    IF inv.engine = "name"
    THEN p \in MatchingFiles =>
             \E k \in DOMAIN inv.results : inv.results[k] = parse(scheme, p)
    ELSE \A n \in 0..(Len(LinesOf(p)) - 1) :
             Len(ReportedOf(p, n)) = Len(MatchesOf(p, n))

\* The invocation s run by itself to its end (or as far as the model
\* follows its reports).
RECURSIVE RunAlone(_)
RunAlone(s) ==
    IF s.pc = "done" \/ (s.pc = "scan" /\ Len(s.events) >= MaxEvents) THEN s
    ELSE RunAlone(Resumption(s))

\* The invocation s as it was given to the provider.
Fresh(s) ==
    NewInvocation(s.engine, s.pattern, s.isRegExp, s.isCaseSensitive,
                  s.includes, s.maxResults)

\* What an invocation gives its caller.
Given(s) ==
    [results |-> s.results, events |-> s.events,
     resultCount |-> s.resultCount, limitHit |-> s.limitHit]

C16_FailedListingLosesOnlySubtree ==
    (/\ inv.engine # "" /\ inv.pc = "done"
     /\ inv.faults # {}
     /\ \A f \in inv.faults : f.fn = "readdir") =>
        \A p \in SearchedFiles : OutsideFailed(p) => Found(p)

\* The listing of a folder that holds a matching file failed, and a
\* matching file listed after the folder was returned.
C16_Witness ==
    /\ inv.engine = "name" /\ inv.pc = "done" /\ inv.includes = <<>>
    /\ \E d \in FailedFolders :
           /\ \E p \in MatchingFiles : IsProperPrefix(d, p)
           /\ \E q \in MatchingFiles :
                  /\ ~IsPrefix(d, q)
                  /\ \E i, j \in DOMAIN inv.calls :
                         /\ i < j
                         /\ inv.calls[i] = StoreCall("readdir", d, Root, "")
                         /\ inv.calls[j] = StoreCall("stat", q, Root, "")
                  /\ \E k \in DOMAIN inv.results :
                         inv.results[k] = parse(scheme, q)

(* C17: when the stat or the read of one file fails, the search still     *)
(* ends, and every other file, those listed after it in its folder        *)
(* included, is returned or reported as it is when nothing fails.         *)
C17_FailedFileLosesOnlyItself ==
    (/\ inv.engine # "" /\ inv.pc = "done"
     /\ inv.faults # {}
     /\ \A f \in inv.faults :
            f.fn \in {"stat", "readFile"} /\ f.path \in FailedFiles) =>
        \A p \in SearchedFiles \ FailedFiles : Found(p)

(* C20: in a text search with no result cap that is not cancelled, the    *)
(* match loop of a line always advances past the match before: of two     *)
(* successive reports for a line the second starts further right, so a    *)
(* line gives finitely many reports and the search ends, for an empty     *)
(* pattern and an expression that matches the empty string as for any     *)
(* other.                                                                 *)
C20_MatchLoopAdvances ==
    (inv.engine = "text" /\ inv.maxResults = 0 /\ ~inv.token) =>
        \A p \in SearchedFiles : \A n \in 0..(Len(LinesOf(p)) - 1) :
            LET reported == ReportedOf(p, n)
            IN  \A k \in 1..(Len(reported) - 1) :
                    reported[k].start < reported[k + 1].start

=============================================================================
